---- MODULE Spec2Model ----
(***************************************************************************)
(* Model of msh/lib/progmgr/utils.go: the process-tree walk (treeProc),    *)
(* the tree sampler (getMshTreeStats), the api2 request builder            *)
(* (buildApi2Req), the sender (sendApi2Req) and the response reader        *)
(* (readApi2Res).                                                          *)
(*                                                                         *)
(* Percentages are float64 in the source; here they are naturals (a fixed  *)
(* point reading), which keeps sums exact.                                 *)
(***************************************************************************)
EXTENDS Integers, Sequences, FiniteSets, TLC

\* ------------------------------------------------------------------ bounds
\* largest number of live processes in the msh process tree
MaxProcs == 4
\* number of usage profiles the per-process percentages are drawn from
MaxPct == 2
\* number of goroutines that may be inside sendApi2Req at once
MaxSenders == 2
\* largest number of JSON tokens in a response body
MaxBodyLen == 3

VARIABLES
    \* --- the operating system, as seen by one sample
    nprocs,      \* live processes are the pids 1..nprocs; pid 1 is os.Getpid()
    ppid,        \* ppid[p]: parent pid of p (0 for the root)
    childErr,    \* childErr[p]: what proc.Children() answers for p
    cpuPct,      \* cpuPct[p]: what CPUPercent() answers for p when it succeeds
    memPct,      \* memPct[p]: what MemoryPercent() answers for p when it succeeds
    \* --- sgm.stats
    stats,
    \* --- getMshTreeStats
    spc,         \* position of the sampler: "idle", "loop", "returned"
    tree,        \* the slice treeProc returned
    idx,         \* index of the range loop over tree
    mshTreeCpu,
    mshTreeMem,
    sret,        \* the returned pair
    qlog,        \* history: <<pid, outcome>> of every query made by this call
    rootOk,      \* history: whether process.NewProcess succeeded
    statsAtCall, \* history: sgm.stats when the call started
    \* --- the channel ReqSent and its consumer
    chanCap,     \* capacity of ReqSent (0: unbuffered, 1: one slot)
    chanBuf,     \* number of values buffered in ReqSent
    recvWaiting, \* whether the consumer is blocked in a receive on ReqSent
    \* --- sendApi2Req, one call at a time per caller
    sendPc,      \* sendPc[s]: "idle", "marshal", "newreq", "do", "wait", "defer", "returned"
    sendRet,     \* sendRet[s]: "none", "res" (res, nil) or "err" (nil, err)
    http,        \* http[s]: the exchange of this call: "none", "inflight", "ok", "failed"
    pubLog,      \* history: pubLog[s]: http[s] and the outcome at every publish attempt
    \* --- buildApi2Req
    intBits,     \* width of Go's int on the platform msh is built for (32 or 64)
    bpc,         \* "idle", "sgm", "cpuInfo", "cores", "mem", "ret", "returned", "panicked"
    bfield,      \* index of the next sgm.stats field to copy (lines 33-37)
    req,         \* reqJson
    lookups,     \* history: what cpu.Info, cpu.Counts and mem.VirtualMemory answered
    seenStats,   \* history: every value sgm.stats had during the call
    \* --- readApi2Res
    rpc,         \* "idle", "readAll", "unmarshal", "defer", "returned"
    body,        \* the bytes of res.Body, as JSON tokens
    resByte,     \* what ioutil.ReadAll returned
    rret,        \* the returned pair: [res, err]
    closed       \* number of res.Body.Close() calls of this call

osVars == <<nprocs, ppid, childErr, cpuPct, memPct>>
sampleVars == <<spc, tree, idx, mshTreeCpu, mshTreeMem, sret, qlog, rootOk, statsAtCall>>

chanVars == <<chanCap, chanBuf, recvWaiting>>
sendVars == <<sendPc, sendRet, http, pubLog>>

buildVars == <<intBits, bpc, bfield, req, lookups, seenStats>>

readVars == <<rpc, body, resByte, rret, closed>>

vars == <<osVars, stats, sampleVars, chanVars, sendVars, buildVars, readVars>>

\* ------------------------------------------------------- process tree (OS)
Pids == 1..MaxProcs
RootPid == 1
\* Pid of the handle treeProc emits on an enumeration error
SentinelPid == -1

\* err.Error() of gopsutil's ErrorNoChildren versus any other error
ErrNoChildren == "process does not have children"
ErrOther == "other"

Live(p) == p \in 1..nprocs

\* the children of p as the OS lists them (ascending pid)
ChildrenOf(p) == {c \in 1..nprocs : ppid[c] = p}

RECURSIVE SetToSeq(_)
SetToSeq(S) ==
    IF S = {} THEN <<>>
    ELSE LET m == CHOOSE x \in S : \A y \in S : x <= y
         IN <<m>> \o SetToSeq(S \ {m})

\* proper descendants of p
RECURSIVE Descendants(_)
Descendants(p) ==
    LET cs == ChildrenOf(p)
    IN cs \cup UNION {Descendants(c) : c \in cs}

Subtree(p) == {p} \cup Descendants(p)

\* ---------------------------------------------------------------- treeProc
RECURSIVE treeProc(_)
RECURSIVE treeProcChildren(_)

\* the loop of lines 182-184 over the children
treeProcChildren(cs) ==
    IF cs = <<>> THEN <<>>
    ELSE treeProc(Head(cs)) \o treeProcChildren(Tail(cs))

treeProc(proc) ==
    IF childErr[proc] # "nil"
    THEN IF childErr[proc] # ErrNoChildren
         THEN <<proc>>
         ELSE <<SentinelPid>>
    ELSE <<proc>> \o treeProcChildren(SetToSeq(ChildrenOf(proc)))

\* --------------------------------------------------------------- sgm.stats
SgmZero ==
    [seconds |-> 0, secondsHibe |-> 0, cpuUsage |-> 0, memUsage |-> 0, playerSec |-> 0]

\* the segment of the end-to-end scenario (cpuUsage, memUsage in tenths)
SgmScenario ==
    [seconds |-> 120, secondsHibe |-> 30, cpuUsage |-> 125, memUsage |-> 80, playerSec |-> 90]

\* the same segment one tick later
SgmTicked ==
    [seconds |-> 121, secondsHibe |-> 30, cpuUsage |-> 130, memUsage |-> 85, playerSec |-> 92]

SgmSamples == {SgmZero, SgmScenario, SgmTicked}

\* --------------------------------------------------------- getMshTreeStats
\* outcomes of the two per-process queries of one loop iteration
QueryOutcomes(c) ==
    IF Live(c) THEN {"ok", "cpuErr", "memErr"} ELSE {"cpuErr"}

\* an error return that hands back the sums accumulated so far
AvgUsagePartial == <<mshTreeCpu, mshTreeMem>>

\* lines 150, 155, 158: "return current avg usage in case of error"
AvgUsage == <<stats.cpuUsage, stats.memUsage>>

\* lines 145-152: resolve the root and walk the tree
SampleCall ==
    /\ spc = "idle"
    /\ statsAtCall' = stats
    /\ mshTreeCpu' = 0
    /\ mshTreeMem' = 0
    /\ qlog' = <<>>
    /\ idx' = 1
    /\ \E ok \in BOOLEAN :
         /\ rootOk' = ok
         /\ IF ok
            THEN /\ tree' = treeProc(RootPid)
                 /\ spc' = "loop"
                 /\ sret' = <<>>
            ELSE /\ tree' = <<>>
                 /\ spc' = "returned"
                 /\ sret' = AvgUsage
    /\ UNCHANGED <<osVars, readVars, stats, chanVars, sendVars, buildVars>>

\* lines 152-163: one iteration of the range loop
SampleQuery ==
    /\ spc = "loop"
    /\ idx <= Len(tree)
    /\ LET c == tree[idx] IN
       \E o \in QueryOutcomes(c) :
         /\ qlog' = Append(qlog, <<c, o>>)
         /\ IF o = "ok"
            THEN /\ mshTreeCpu' = mshTreeCpu + cpuPct[c]
                 /\ mshTreeMem' = mshTreeMem + memPct[c]
                 /\ idx' = idx + 1
                 /\ UNCHANGED <<spc, sret>>
            ELSE /\ sret' = AvgUsage
                 /\ spc' = "returned"
                 /\ UNCHANGED <<mshTreeCpu, mshTreeMem, idx>>
    /\ UNCHANGED <<osVars, readVars, stats, tree, rootOk, statsAtCall, chanVars, sendVars, buildVars>>

\* line 166
SampleReturn ==
    /\ spc = "loop"
    /\ idx > Len(tree)
    /\ sret' = <<mshTreeCpu, mshTreeMem>>
    /\ spc' = "returned"
    /\ UNCHANGED <<osVars, readVars, stats, tree, idx, mshTreeCpu, mshTreeMem, qlog,
                   rootOk, statsAtCall, chanVars, sendVars, buildVars>>

\* the caller takes the pair; the next timer tick may sample again
SampleDone ==
    /\ spc = "returned"
    /\ spc' = "idle"
    /\ UNCHANGED <<osVars, readVars, stats, tree, idx, mshTreeCpu, mshTreeMem, sret, qlog,
                   rootOk, statsAtCall, chanVars, sendVars, buildVars>>

\* the segment owner writes sgm.stats (an update or a reset); it is the thread
\* that calls the sampler, so it writes only between two samples
SgmOwnerWrite ==
    /\ spc = "idle"
    /\ stats' \in SgmSamples \ {stats}
    /\ seenStats' = IF bpc \in {"idle", "returned", "panicked"}
                    THEN seenStats ELSE seenStats \cup {stats'}
    /\ UNCHANGED <<osVars, readVars, sampleVars, chanVars, sendVars,
                   intBits, bpc, bfield, req, lookups>>


\* ------------------------------------------------------------- sendApi2Req
Senders == 1..MaxSenders

SendIdleVars ==
    /\ chanBuf = 0
    /\ recvWaiting = FALSE
    /\ sendPc = [s \in Senders |-> "idle"]
    /\ sendRet = [s \in Senders |-> "none"]
    /\ http = [s \in Senders |-> "none"]
    /\ pubLog = [s \in Senders |-> <<>>]

\* a caller enters sendApi2Req; the deferred function is registered (line 85)
SendCall(s) ==
    /\ sendPc[s] = "idle"
    /\ sendPc' = [sendPc EXCEPT ![s] = "marshal"]
    /\ sendRet' = [sendRet EXCEPT ![s] = "none"]
    /\ http' = [http EXCEPT ![s] = "none"]
    /\ pubLog' = [pubLog EXCEPT ![s] = <<>>]
    /\ UNCHANGED <<osVars, readVars, stats, sampleVars, buildVars, chanVars>>

\* a return statement that skips the deferred function
SendMarshalNoDefer(s) ==
    /\ sendPc[s] = "marshal"
    /\ \E ok \in BOOLEAN :
         IF ok
         THEN /\ sendPc' = [sendPc EXCEPT ![s] = "newreq"]
              /\ UNCHANGED sendRet
         ELSE /\ sendPc' = [sendPc EXCEPT ![s] = "returned"]
              /\ sendRet' = [sendRet EXCEPT ![s] = "err"]
    /\ UNCHANGED <<osVars, readVars, stats, sampleVars, buildVars, chanVars, http, pubLog>>

\* lines 95-98: json.Marshal
SendMarshal(s) ==
    /\ sendPc[s] = "marshal"
    /\ \E ok \in BOOLEAN :
         IF ok
         THEN /\ sendPc' = [sendPc EXCEPT ![s] = "newreq"]
              /\ UNCHANGED sendRet
         ELSE /\ sendPc' = [sendPc EXCEPT ![s] = "defer"]
              /\ sendRet' = [sendRet EXCEPT ![s] = "err"]
    /\ UNCHANGED <<osVars, readVars, stats, sampleVars, buildVars, chanVars, http, pubLog>>

\* lines 101-108: http.NewRequest and the headers
SendNewRequest(s) ==
    /\ sendPc[s] = "newreq"
    /\ \E ok \in BOOLEAN :
         IF ok
         THEN /\ sendPc' = [sendPc EXCEPT ![s] = "do"]
              /\ UNCHANGED sendRet
         ELSE /\ sendPc' = [sendPc EXCEPT ![s] = "defer"]
              /\ sendRet' = [sendRet EXCEPT ![s] = "err"]
    /\ UNCHANGED <<osVars, readVars, stats, sampleVars, buildVars, chanVars, http, pubLog>>

\* lines 112-113: client.Do starts the exchange
SendHttpStart(s) ==
    /\ sendPc[s] = "do"
    /\ sendPc' = [sendPc EXCEPT ![s] = "wait"]
    /\ http' = [http EXCEPT ![s] = "inflight"]
    /\ UNCHANGED <<osVars, readVars, stats, sampleVars, buildVars, chanVars, sendRet, pubLog>>

\* lines 113-118: client.Do returns: a response, or an error (transport
\* failure, or the 4 second timeout)
SendHttpEnd(s) ==
    /\ sendPc[s] = "wait"
    /\ \E ok \in BOOLEAN :
         /\ http' = [http EXCEPT ![s] = IF ok THEN "ok" ELSE "failed"]
         /\ sendRet' = [sendRet EXCEPT ![s] = IF ok THEN "res" ELSE "err"]
    /\ sendPc' = [sendPc EXCEPT ![s] = "defer"]
    /\ UNCHANGED <<osVars, readVars, stats, sampleVars, buildVars, chanVars, pubLog>>

\* a plain channel send, ReqSent <- true, with no default case
ReqSentSendBlocking ==
    \/ /\ recvWaiting
       /\ recvWaiting' = FALSE
       /\ UNCHANGED <<chanCap, chanBuf>>
    \/ /\ ~recvWaiting
       /\ chanBuf < chanCap
       /\ chanBuf' = chanBuf + 1
       /\ UNCHANGED <<chanCap, recvWaiting>>

\* lines 86-89: select { case ReqSent <- true: default: }
ReqSentSelect ==
    IF recvWaiting
    THEN /\ recvWaiting' = FALSE
         /\ UNCHANGED <<chanCap, chanBuf>>
    ELSE IF chanBuf < chanCap
         THEN /\ chanBuf' = chanBuf + 1
              /\ UNCHANGED <<chanCap, recvWaiting>>
         ELSE UNCHANGED <<chanCap, chanBuf, recvWaiting>>

\* what the select of lines 86-89 does with the value
PublishOutcome ==
    IF recvWaiting \/ chanBuf < chanCap THEN "delivered" ELSE "dropped"

\* lines 85-90: the deferred function runs, then the call returns
SendDeferred(s) ==
    /\ sendPc[s] = "defer"
    /\ ReqSentSelect
    /\ pubLog' = [pubLog EXCEPT ![s] = Append(@, <<http[s], PublishOutcome>>)]
    /\ sendPc' = [sendPc EXCEPT ![s] = "returned"]
    /\ UNCHANGED <<osVars, readVars, stats, sampleVars, buildVars, sendRet, http>>

\* the caller takes the result
SendDone(s) ==
    /\ sendPc[s] = "returned"
    /\ sendPc' = [sendPc EXCEPT ![s] = "idle"]
    /\ UNCHANGED <<osVars, readVars, stats, sampleVars, buildVars, chanVars, sendRet, http, pubLog>>

\* the consumer of ReqSent receives: a buffered value at once, else it blocks
ConsumerRecv ==
    /\ ~recvWaiting
    /\ IF chanBuf > 0
       THEN /\ chanBuf' = chanBuf - 1
            /\ UNCHANGED <<chanCap, recvWaiting>>
       ELSE /\ recvWaiting' = TRUE
            /\ UNCHANGED <<chanCap, chanBuf>>
    /\ UNCHANGED <<osVars, readVars, stats, sampleVars, buildVars, sendVars>>

\* the consumer gives up waiting (another case of its select fires)
ConsumerLeave ==
    /\ recvWaiting
    /\ recvWaiting' = FALSE
    /\ UNCHANGED <<osVars, readVars, stats, sampleVars, buildVars, chanCap, chanBuf, sendVars>>

\* ------------------------------------------------------------ buildApi2Req
\* &model.Api2Req{}: every field has Go's zero value
ReqZero ==
    [Seconds |-> 0, SecondsHibe |-> 0, CpuUsage |-> 0, MemUsage |-> 0,
     PlayerSec |-> 0, PreTerm |-> FALSE,
     CpuModel |-> "", CpuVendor |-> "", CoresSys |-> 0, Mem |-> [unit |-> "B", n |-> 0]]

\* lines 33-37, in program order: the field of reqJson.Msh.Sgm and the field
\* of sgm.stats it is copied from
SgmCopies ==
    << <<"Seconds", "seconds">>, <<"SecondsHibe", "secondsHibe">>,
       <<"CpuUsage", "cpuUsage">>, <<"MemUsage", "memUsage">>,
       <<"PlayerSec", "playerSec">> >>

\* the segment section of a request, as a sgm.stats value
SgmOf(r) ==
    [seconds |-> r.Seconds, secondsHibe |-> r.SecondsHibe, cpuUsage |-> r.CpuUsage,
     memUsage |-> r.MemUsage, playerSec |-> r.PlayerSec]

\* answers of cpu.Info(): an error, or a slice of InfoStat (possibly empty)
CpuInfoAnswers ==
    { [err |-> TRUE, info |-> <<>>],
      [err |-> FALSE, info |-> <<>>],
      [err |-> FALSE, info |-> <<[ModelName |-> "Cortex-A72", Model |-> "3", VendorID |-> "ARM"]>>],
      [err |-> FALSE, info |-> <<[ModelName |-> "", Model |-> "158", VendorID |-> "GenuineIntel"]>>] }

\* answers of cpu.Counts(true)
CoresAnswers == { [err |-> TRUE, n |-> 0], [err |-> FALSE, n |-> 4] }

\* answers of mem.VirtualMemory(): Total, a uint64 count of bytes, in MiB
MemAnswers ==
    { [err |-> TRUE, total |-> 0], [err |-> FALSE, total |-> 1024],
      [err |-> FALSE, total |-> 3072] }

\* int(x) for a uint64 x given in MiB: unchanged in a 64 bit int, wrapped to
\* the signed 32 bit range (4096 MiB = 2^32 bytes) in a 32 bit int
IntOfMiB(x) ==
    IF intBits = 64 THEN x
    ELSE LET m == x % 4096 IN IF m >= 2048 THEN m - 4096 ELSE m

NoLookups == [cpu |-> "none", cores |-> "none", mem |-> "none"]

BuildIdleVars ==
    /\ bpc = "idle"
    /\ bfield = 1
    /\ req = ReqZero
    /\ lookups = NoLookups
    /\ seenStats = {}

\* lines 24-32
BuildCall ==
    /\ bpc = "idle"
    /\ bpc' = "sgm"
    /\ bfield' = 1
    /\ req' = ReqZero
    /\ lookups' = NoLookups
    /\ seenStats' = {stats}
    /\ UNCHANGED <<osVars, readVars, stats, sampleVars, chanVars, sendVars, intBits>>

\* lines 33-37: one assignment, one read of sgm.stats, at a time
BuildCopySgm ==
    /\ bpc = "sgm"
    /\ req' = [req EXCEPT ![SgmCopies[bfield][1]] = stats[SgmCopies[bfield][2]]]
    /\ IF bfield < Len(SgmCopies)
       THEN /\ bfield' = bfield + 1
            /\ UNCHANGED bpc
       ELSE /\ bpc' = "preTerm"
            /\ UNCHANGED bfield
    /\ UNCHANGED <<osVars, readVars, stats, sampleVars, chanVars, sendVars, intBits,
                   lookups, seenStats>>

\* line 38
BuildPreTerm ==
    /\ bpc = "preTerm"
    /\ \E preTerm \in BOOLEAN : req' = [req EXCEPT !.PreTerm = preTerm]
    /\ bpc' = "cpuInfo"
    /\ UNCHANGED <<osVars, readVars, stats, sampleVars, chanVars, sendVars, intBits,
                   bfield, lookups, seenStats>>

\* lines 45-54: cpuInfo[0] of an empty slice is a run-time panic
BuildCpuInfo ==
    /\ bpc = "cpuInfo"
    /\ \E a \in CpuInfoAnswers :
         /\ lookups' = [lookups EXCEPT !.cpu = a]
         /\ IF a.err
            THEN /\ req' = [req EXCEPT !.CpuModel = "", !.CpuVendor = ""]
                 /\ bpc' = "cores"
            ELSE IF Len(a.info) = 0
                 THEN /\ bpc' = "panicked"
                      /\ UNCHANGED req
                 ELSE /\ req' = [req EXCEPT
                                   !.CpuModel = IF a.info[1].ModelName = ""
                                                THEN a.info[1].Model
                                                ELSE a.info[1].ModelName,
                                   !.CpuVendor = a.info[1].VendorID]
                      /\ bpc' = "cores"
    /\ UNCHANGED <<osVars, readVars, stats, sampleVars, chanVars, sendVars, intBits,
                   bfield, seenStats>>

\* lines 60-65
BuildCores ==
    /\ bpc = "cores"
    /\ \E a \in CoresAnswers :
         /\ lookups' = [lookups EXCEPT !.cores = a]
         /\ req' = [req EXCEPT !.CoresSys = IF a.err THEN -1 ELSE a.n]
    /\ bpc' = "mem"
    /\ UNCHANGED <<osVars, readVars, stats, sampleVars, chanVars, sendVars, intBits,
                   bfield, seenStats>>

\* lines 68-73
BuildMem ==
    /\ bpc = "mem"
    /\ \E a \in MemAnswers :
         /\ lookups' = [lookups EXCEPT !.mem = a]
         /\ req' = [req EXCEPT !.Mem = IF a.err THEN [unit |-> "B", n |-> -1]
                                       ELSE [unit |-> "MiB", n |-> IntOfMiB(a.total)]]
    /\ bpc' = "ret"
    /\ UNCHANGED <<osVars, readVars, stats, sampleVars, chanVars, sendVars, intBits,
                   bfield, seenStats>>

\* lines 75-79
BuildReturn ==
    /\ bpc = "ret"
    /\ bpc' = "returned"
    /\ UNCHANGED <<osVars, readVars, stats, sampleVars, chanVars, sendVars, intBits,
                   bfield, req, lookups, seenStats>>

\* the caller takes the request
BuildDone ==
    /\ bpc = "returned"
    /\ bpc' = "idle"
    /\ UNCHANGED <<osVars, readVars, stats, sampleVars, chanVars, sendVars, intBits,
                   bfield, req, lookups, seenStats>>

\* ------------------------------------------------------------- readApi2Res
\* a response body, token by token: white space, the literal null, the
\* braces of an object, an object member ("key": value), a comma, and "x"
\* for any byte sequence that is no JSON token
Tokens == {"ws", "null", "{", "}", "m", ",", "x"}

RECURSIVE SeqsUpTo(_)
SeqsUpTo(n) ==
    IF n = 0 THEN {<<>>}
    ELSE LET shorter == SeqsUpTo(n - 1)
         IN shorter \cup {Append(b, t) : b \in {c \in shorter : Len(c) = n - 1}, t \in Tokens}

Bodies == SeqsUpTo(MaxBodyLen)

\* the tokens of b that are not white space
RECURSIVE Significant(_)
Significant(b) ==
    IF b = <<>> THEN <<>>
    ELSE IF Head(b) = "ws" THEN Significant(Tail(b))
         ELSE <<Head(b)>> \o Significant(Tail(b))

\* m ( , m )* : the members between the braces of an object
RECURSIVE IsMembers(_)
IsMembers(t) ==
    /\ Len(t) >= 1
    /\ t[1] = "m"
    /\ \/ Len(t) = 1
       \/ /\ Len(t) >= 3
          /\ t[2] = ","
          /\ IsMembers(SubSeq(t, 3, Len(t)))

IsObject(t) ==
    /\ Len(t) >= 2
    /\ t[1] = "{"
    /\ t[Len(t)] = "}"
    /\ \/ Len(t) = 2
       \/ IsMembers(SubSeq(t, 2, Len(t) - 1))

\* json.Unmarshal(resByte, &resJson) with resJson a nil *model.Api2Res:
\* null leaves the pointer nil and is no error; an object allocates the
\* struct; anything else (no value at all, another value, bytes that are
\* no JSON) is an error
Unmarshal(b) ==
    LET t == Significant(b) IN
    IF t = <<"null">> THEN [resJson |-> "nil", err |-> FALSE]
    ELSE IF IsObject(t) THEN [resJson |-> "Api2Res", err |-> FALSE]
    ELSE [resJson |-> "nil", err |-> TRUE]

ReadIdleVars ==
    /\ rpc = "idle"
    /\ body = <<>>
    /\ resByte = <<>>
    /\ rret = [res |-> "nil", err |-> FALSE]
    /\ closed = 0

\* lines 122-125: the call, with res.Body.Close() deferred
ReadCall ==
    /\ rpc = "idle"
    /\ body' \in Bodies
    /\ resByte' = <<>>
    /\ rret' = [res |-> "nil", err |-> FALSE]
    /\ closed' = 0
    /\ rpc' = "readAll"
    /\ UNCHANGED <<osVars, stats, sampleVars, chanVars, sendVars, buildVars>>

\* lines 128-132: ioutil.ReadAll
ReadAll ==
    /\ rpc = "readAll"
    /\ \E ok \in BOOLEAN :
         IF ok
         THEN /\ resByte' = body
              /\ rpc' = "unmarshal"
              /\ UNCHANGED rret
         ELSE /\ rret' = [res |-> "nil", err |-> TRUE]
              /\ rpc' = "defer"
              /\ UNCHANGED resByte
    /\ UNCHANGED <<osVars, stats, sampleVars, chanVars, sendVars, buildVars,
                   body, closed>>

\* lines 135-141
ReadUnmarshal ==
    /\ rpc = "unmarshal"
    /\ LET u == Unmarshal(resByte) IN
       rret' = IF u.err THEN [res |-> "nil", err |-> TRUE]
               ELSE [res |-> u.resJson, err |-> FALSE]
    /\ rpc' = "defer"
    /\ UNCHANGED <<osVars, stats, sampleVars, chanVars, sendVars, buildVars,
                   body, resByte, closed>>

\* line 123: the deferred res.Body.Close() runs, then the call returns
ReadDeferred ==
    /\ rpc = "defer"
    /\ closed' = closed + 1
    /\ rpc' = "returned"
    /\ UNCHANGED <<osVars, stats, sampleVars, chanVars, sendVars, buildVars,
                   body, resByte, rret>>

\* the caller takes the result
ReadDone ==
    /\ rpc = "returned"
    /\ rpc' = "idle"
    /\ UNCHANGED <<osVars, stats, sampleVars, chanVars, sendVars, buildVars,
                   body, resByte, rret, closed>>

\* ========================================================== specifications
\* the usage profiles the percentages are drawn from
Usages == { [p \in Pids |-> 1 + ((p * k) % (MaxPct + 1))] : k \in 1..MaxPct }

InitWalk ==
    /\ nprocs \in 1..MaxProcs
    /\ ppid \in [Pids -> 0..MaxProcs]
    /\ \A p \in Pids : IF p = RootPid \/ p > nprocs THEN ppid[p] = 0
                       ELSE ppid[p] \in 1..(p - 1)
    /\ childErr \in [Pids -> {"nil", ErrNoChildren, ErrOther}]
    /\ \A p \in Pids :
         /\ p > nprocs => childErr[p] = "nil"
         /\ childErr[p] = ErrNoChildren => ChildrenOf(p) = {}
    /\ cpuPct \in Usages
    /\ memPct \in Usages
    /\ stats \in SgmSamples
    /\ spc = "idle"
    /\ tree = <<>>
    /\ idx = 1
    /\ mshTreeCpu = 0
    /\ mshTreeMem = 0
    /\ sret = <<>>
    /\ qlog = <<>>
    /\ rootOk = FALSE
    /\ statsAtCall = SgmZero
    /\ chanCap = 1
    /\ SendIdleVars
    /\ intBits = 64
    /\ BuildIdleVars
    /\ ReadIdleVars

NextWalk == SampleCall \/ SampleQuery \/ SampleReturn \/ SampleDone \/ SgmOwnerWrite

SpecWalk == InitWalk /\ [][NextWalk]_vars

WalkIdleVars ==
    /\ nprocs = 1
    /\ ppid = [p \in Pids |-> 0]
    /\ childErr = [p \in Pids |-> "nil"]
    /\ cpuPct = [p \in Pids |-> 1]
    /\ memPct = [p \in Pids |-> 1]
    /\ spc = "idle"
    /\ tree = <<>>
    /\ idx = 1
    /\ mshTreeCpu = 0
    /\ mshTreeMem = 0
    /\ sret = <<>>
    /\ qlog = <<>>
    /\ rootOk = FALSE
    /\ statsAtCall = SgmZero

InitSend ==
    /\ WalkIdleVars
    /\ stats = SgmZero
    /\ chanCap \in {0, 1}
    /\ SendIdleVars
    /\ intBits = 64
    /\ BuildIdleVars
    /\ ReadIdleVars

NextSend ==
    \/ \E s \in Senders :
         \/ SendCall(s)
         \/ SendMarshal(s)
         \/ SendNewRequest(s)
         \/ SendHttpStart(s)
         \/ SendHttpEnd(s)
         \/ SendDeferred(s)
         \/ SendDone(s)
    \/ ConsumerRecv
    \/ ConsumerLeave

SpecSend == InitSend /\ [][NextSend]_vars

InitBuild ==
    /\ WalkIdleVars
    /\ stats \in SgmSamples
    /\ chanCap = 1
    /\ SendIdleVars
    /\ intBits \in {32, 64}
    /\ BuildIdleVars
    /\ ReadIdleVars

NextBuild ==
    \/ BuildCall
    \/ BuildCopySgm
    \/ BuildPreTerm
    \/ BuildCpuInfo
    \/ BuildCores
    \/ BuildMem
    \/ BuildReturn
    \/ BuildDone
    \/ SgmOwnerWrite

SpecBuild == InitBuild /\ [][NextBuild]_vars

InitRead ==
    /\ WalkIdleVars
    /\ stats = SgmZero
    /\ chanCap = 1
    /\ SendIdleVars
    /\ intBits = 64
    /\ BuildIdleVars
    /\ ReadIdleVars

NextRead == ReadCall \/ ReadAll \/ ReadUnmarshal \/ ReadDeferred \/ ReadDone

SpecRead == InitRead /\ [][NextRead]_vars

\* ================================================================= claims
\* --------------------------------------------------------- walk and sample
\* the processes treeProc is called on: those whose ancestors all listed
\* their children
RECURSIVE Visited(_)
Visited(p) ==
    \/ p = RootPid
    \/ /\ Live(p)
       /\ ppid[p] # 0
       /\ childErr[ppid[p]] = "nil"
       /\ Visited(ppid[p])

Range(s) == {s[i] : i \in 1..Len(s)}
Count(s, x) == Cardinality({i \in 1..Len(s) : s[i] = x})

RECURSIVE SumOver(_, _)
SumOver(f, S) ==
    IF S = {} THEN 0
    ELSE LET x == CHOOSE y \in S : TRUE IN f[x] + SumOver(f, S \ {x})

Walked == spc = "loop"
LiveProcs == 1..nprocs
QueryFailed == \E i \in 1..Len(qlog) : qlog[i][2] # "ok"

\* C1: at every visited node, a Children() failure "process does not have
\* children" emits the node itself with zero children, and any other
\* failure emits the sentinel (pid -1) in place of the node, with nothing
\* below the node walked.
C1_FailurePolicy ==
    Walked =>
      \A p \in LiveProcs :
        Visited(p) =>
          /\ childErr[p] = ErrNoChildren => treeProc(p) = <<p>>
          /\ childErr[p] = ErrOther => treeProc(p) = <<SentinelPid>>

\* C2: a sample that failed (root not resolved, or a CPU or memory query
\* failed on any handle, however many were summed before) returns the pair
\* (cpuUsage, memUsage) sgm.stats held when the call started, and sgm.stats
\* is as it was.
C2_FailSafeSampling ==
    (spc = "returned" /\ (~rootOk \/ QueryFailed)) =>
      /\ sret = <<statsAtCall.cpuUsage, statsAtCall.memUsage>>
      /\ stats = statsAtCall

\* a query failed after earlier handles were summed, in a segment whose
\* averages differ from the partial sums
C2_Witness ==
    /\ spc = "returned"
    /\ rootOk
    /\ QueryFailed
    /\ Len(qlog) >= 3
    /\ mshTreeCpu > 0
    /\ stats = SgmTicked
    /\ sret = <<130, 85>>

\* exactly one process has vanished, and it is a visited non-root child
OneVanishedChild(v) ==
    /\ v \in LiveProcs
    /\ v # RootPid
    /\ Visited(v)
    /\ childErr[v] = ErrOther
    /\ \A q \in LiveProcs : childErr[q] = ErrOther => q = v

\* C5: with exactly one vanished non-root child, the walk holds exactly one
\* sentinel and every sibling of the vanished child with its whole subtree.
C5_SentinelIsolation ==
    Walked =>
      \A v \in LiveProcs :
        OneVanishedChild(v) =>
          /\ Count(tree, SentinelPid) = 1
          /\ \A b \in ChildrenOf(ppid[v]) \ {v} : Subtree(b) \subseteq Range(tree)

\* C6: whatever the tree (the root alive), the walk is a non-empty sequence
\* that starts with the root.
C6_RootFirst ==
    (Walked /\ childErr[RootPid] # ErrOther) =>
      /\ Len(tree) >= 1
      /\ tree[1] = RootPid

\* C9: when the root resolves, no process has vanished and no query on a
\* live process fails, the sample is the pair of sums over every process of
\* the tree, each counted once.
C9_SamplingSuccess ==
    ( /\ spc = "returned"
      /\ rootOk
      /\ \A p \in LiveProcs : childErr[p] # ErrOther
      /\ \A i \in 1..Len(qlog) : Live(qlog[i][1]) => qlog[i][2] = "ok" ) =>
      sret = <<SumOver(cpuPct, Subtree(RootPid)), SumOver(memPct, Subtree(RootPid))>>

\* ------------------------------------------------------------------- send
\* C3: the publish of the deferred function never blocks: whatever the
\* consumer does and however many callers are inside sendApi2Req, a caller
\* that reached the deferred function can always run it and return.
C3_NonBlockingPublish ==
    \A s \in Senders : sendPc[s] = "defer" => ENABLED SendDeferred(s)

\* a notification was dropped while another caller is about to publish
C3_Witness ==
    \E s, t \in Senders :
      /\ s # t
      /\ sendPc[s] = "returned"
      /\ pubLog[s] # <<>>
      /\ pubLog[s][1][2] = "dropped"
      /\ sendPc[t] = "defer"
      /\ ~recvWaiting
      /\ chanBuf = chanCap

\* C4 as stated: every returned call made exactly one publish attempt, and
\* every publish attempt was made after the HTTP exchange of its call had
\* completed.
C4_PublishAfterExchange ==
    \A s \in Senders :
      /\ sendPc[s] = "returned" => Len(pubLog[s]) = 1
      /\ \A i \in 1..Len(pubLog[s]) : pubLog[s][i][1] \in {"ok", "failed"}

\* C4 amended: every returned call made exactly one publish attempt, as its
\* last step; the attempt is never made while the exchange is in flight,
\* and it is made with no exchange at all only by a call that returns an
\* error (json.Marshal or http.NewRequest failed).
C4_PublishOrdering ==
    \A s \in Senders :
      /\ sendPc[s] = "returned" => Len(pubLog[s]) = 1
      /\ sendPc[s] \notin {"returned", "idle"} => pubLog[s] = <<>>
      /\ \A i \in 1..Len(pubLog[s]) :
           \/ pubLog[s][i][1] \in {"ok", "failed"}
           \/ pubLog[s][i][1] = "none" /\ sendRet[s] = "err"

\* one call published after json.Marshal failed, another after its exchange failed
C4_Witness ==
    \E s, t \in Senders :
      /\ sendPc[s] = "returned"
      /\ sendPc[t] = "returned"
      /\ pubLog[s] # <<>>
      /\ pubLog[t] # <<>>
      /\ pubLog[s][1][1] = "none"
      /\ pubLog[t][1][1] = "failed"

\* ------------------------------------------------------------------ build
\* C7: whatever the three host lookups answer, buildApi2Req returns a
\* request, in which a failed lookup left its sentinel ("" or -1) and a
\* lookup that succeeded left the value it looked up.
C7_SentinelDefaulting ==
    /\ bpc # "panicked"
    /\ bpc = "returned" =>
         /\ IF lookups.cpu.err
            THEN req.CpuModel = "" /\ req.CpuVendor = ""
            ELSE /\ Len(lookups.cpu.info) > 0
                 /\ req.CpuModel \in {lookups.cpu.info[1].ModelName, lookups.cpu.info[1].Model}
                 /\ req.CpuVendor = lookups.cpu.info[1].VendorID
         /\ req.CoresSys = IF lookups.cores.err THEN -1 ELSE lookups.cores.n
         /\ req.Mem = IF lookups.mem.err THEN [unit |-> "B", n |-> -1]
                      ELSE [unit |-> "MiB", n |-> lookups.mem.total]

\* C8: the segment section of the request buildApi2Req returns is one value
\* sgm.stats had during the call, also when the segment owner writes
\* sgm.stats while the call runs.
C8_SgmSnapshot ==
    bpc = "returned" => SgmOf(req) \in seenStats

\* ------------------------------------------------------------------- read
\* C10: whatever the body, readApi2Res closes it exactly once and returns
\* exactly one of a non-nil response and a non-nil error.
C10_ResultExclusivity ==
    rpc = "returned" =>
      /\ closed = 1
      /\ (rret.res # "nil") # rret.err

====
